---- MODULE Spec2Model ----
(***************************************************************************)
(* Junk-hauling API (src/hauling.py): five SQL tables behind FastAPI       *)
(* handlers and an uploads/ directory.  Every handler runs in its own      *)
(* session and commits once; create_quote_with_photo writes the photo      *)
(* before it inserts the Quote row, so it is modelled in two steps.        *)
(***************************************************************************)
EXTENDS Integers, FiniteSets, Sequences, TLC

(* ------------------------------ bounds -------------------------------- *)
\* size of the pool of UUID values the model draws from
MaxId == 4
\* cap on what the store holds: rows of the five tables plus files without a Quote row
MaxRows == 3
\* cap on the number of uploads whose file is written and whose row is not yet inserted
MaxInflight == 2

(* --------------------------- input domains ---------------------------- *)
UUIDs == 1..MaxId
\* a JSON body without an "id" member (the id defaults to uuid4())
NoId == 0
\* the "id" member of a JSON body: absent, or a UUID the client chose
BodyIds == {NoId, 1}
Names == {"A", "B"}
FacilityNames == {"dump"}
Phones == {"555"}
Emails == {"a@b.com"}
Dates == {"2024-01-01", "2024-01-02"}
\* the fields of a Booking body sent to POST /bookings
BodyDates == {"2024-03-03"}
BodyCategories == {"yard waste"}
BodyCustomers == {1}
BodyQuotes == {1}
Addresses == {"123 Main St"}
Capacities == {"12.0"}
Routes == {"None"}
Locations == {"north"}
AcceptedCategories == {"furniture,appliances"}
\* the multipart form of POST /quotes: customer_id, categories, estimated_volume,
\* price_estimate, file.filename and the bytes of the file
QuoteForms == {<<1, "furniture", "10.5", "150.0", "photo.jpg", "bytes1">>,
               <<2, "appliances", "3.0", "40.0", "photo.jpg", "bytes2">>}

VARIABLES
    customers,   \* table Customer
    quotes,      \* table Quote
    bookings,    \* table Booking
    trucks,      \* table Truck
    facilities,  \* table DisposalFacility
    files,       \* uploads/ : stored name -> bytes
    inflight,    \* create_quote_with_photo calls between the file write and the insert
    issued,      \* UUID values already seen (returned by uuid4 or sent by a client)
    last         \* the handler step that answered last: handler, HTTP status, the Quote
                 \* session.get read (approve, convert) and the record returned

persisted == <<customers, quotes, bookings, trucks, facilities, files>>
vars == <<customers, quotes, bookings, trucks, facilities, files, inflight, issued, last>>

(* ------------------------------ helpers ------------------------------- *)
\* uuid4(): a value never seen before.  UUID values are interchangeable (nothing
\* orders or inspects them), so the fresh value is represented by the least unseen one;
\* the set is empty once the pool is used up.
uuid4 == {u \in UUIDs \ issued : \A v \in UUIDs \ issued : u <= v}

\* Field(default_factory=uuid4, primary_key=True): the id a body carries, or a fresh one
default_id(supplied) == IF supplied = NoId THEN uuid4 ELSE {supplied}

\* mutant: the table has no primary key, so no INSERT is refused
IntegrityError_never(table, id) == FALSE

\* primary_key=True: the INSERT of a row whose id is already in the table fails
IntegrityError(table, id) == \E r \in table : r.id = id

\* session.add(row); session.commit()
session_add(table, row) == table \cup {row}

\* session.get(Model, id): the rows with that primary key (none or one)
session_get(table, id) == {r \in table : r.id = id}

\* what the store holds: the rows of the five tables and the files no Quote row names
Unreferenced == {p \in DOMAIN files : \A q \in quotes : q.photo_path # p}
RowCount == Cardinality(customers) + Cardinality(quotes) + Cardinality(bookings)
            + Cardinality(trucks) + Cardinality(facilities) + Cardinality(Unreferenced)

NoResult == [kind |-> "none"]

Reply(op, status, quote, body) == [op |-> op, status |-> status, quote |-> quote, body |-> body]

Init ==
    /\ customers = {}
    /\ quotes = {}
    /\ bookings = {}
    /\ trucks = {}
    /\ facilities = {}
    /\ files = <<>>
    /\ inflight = {}
    /\ issued = {}
    /\ last = Reply("startup", 0, NoResult, NoResult)

(* ----------------------------- customers ------------------------------ *)
list_customers ==
    /\ last' = Reply("list_customers", 200, NoResult, [kind |-> "list", items |-> customers])
    /\ UNCHANGED <<customers, quotes, bookings, trucks, facilities, files, inflight, issued>>

create_customer(id, name, phone, email) ==
    \E new \in default_id(id) :
        LET row == [id |-> new, name |-> name, phone |-> phone, email |-> email]
        IN  /\ issued' = issued \cup {new}
            /\ IF IntegrityError(customers, new)
               THEN /\ last' = Reply("create_customer", 500, NoResult, NoResult)
                    /\ UNCHANGED customers
               ELSE /\ RowCount < MaxRows
                    /\ customers' = session_add(customers, row)
                    /\ last' = Reply("create_customer", 200, NoResult, row)
            /\ UNCHANGED <<quotes, bookings, trucks, facilities, files, inflight>>

(* ------------------------------- quotes ------------------------------- *)
\* mutant: the stored name is the client's filename alone
photo_path_of_unprefixed(token, filename) == <<"uploads", 0, filename>>

\* f"uploads/{uuid4()}_{file.filename}": a UUID prints at a fixed width, so the string
\* determines the token and the filename, as the tuple does
photo_path_of(token, filename) == <<"uploads", token, filename>>

\* mutant: the bytes are never written
copyfileobj_skipped(fs, path, content) == fs

\* open(photo_path, "wb") + shutil.copyfileobj: create or truncate, then write all bytes
copyfileobj(fs, path, content) ==
    [p \in DOMAIN fs \cup {path} |-> IF p = path THEN content ELSE fs[p]]

\* mutant: a Quote is born accepted
Quote_born_accepted(id, customer_id, categories, estimated_volume, price_estimate, photo_path) ==
    [id |-> id, customer_id |-> customer_id, categories |-> categories,
     estimated_volume |-> estimated_volume, price_estimate |-> price_estimate,
     accepted |-> TRUE, photo_path |-> photo_path]

\* Quote(...) as the handler builds it: accepted is left to its default
Quote(id, customer_id, categories, estimated_volume, price_estimate, photo_path) ==
    [id |-> id, customer_id |-> customer_id, categories |-> categories,
     estimated_volume |-> estimated_volume, price_estimate |-> price_estimate,
     accepted |-> FALSE, photo_path |-> photo_path]

\* lines 124-126: name the file and write it
create_quote_with_photo_write(customer_id, categories, estimated_volume, price_estimate, filename, content) ==
    /\ Cardinality(inflight) < MaxInflight
    /\ RowCount < MaxRows
    /\ \E token \in uuid4 :
        LET photo_path == photo_path_of(token, filename)
            form == [kind |-> "quote_form", customer_id |-> customer_id, categories |-> categories,
                     estimated_volume |-> estimated_volume, price_estimate |-> price_estimate,
                     filename |-> filename, content |-> content]
        IN  /\ files' = copyfileobj(files, photo_path, content)
            /\ inflight' = inflight \cup {[form |-> form, photo_path |-> photo_path]}
            /\ issued' = issued \cup {token}
    /\ UNCHANGED <<customers, quotes, bookings, trucks, facilities, last>>

\* lines 127-137: build the Quote, insert it, return it
create_quote_with_photo_commit(call) ==
    /\ call \in inflight
    /\ \E new \in uuid4 :
        LET row == Quote(new, call.form.customer_id, call.form.categories,
                         call.form.estimated_volume, call.form.price_estimate, call.photo_path)
        IN  /\ issued' = issued \cup {new}
            /\ IF IntegrityError(quotes, new)
               THEN /\ last' = Reply("create_quote_with_photo", 500, NoResult, NoResult)
                    /\ UNCHANGED quotes
               ELSE /\ quotes' = session_add(quotes, row)
                    /\ last' = Reply("create_quote_with_photo", 200, NoResult, row)
    /\ inflight' = inflight \ {call}
    /\ UNCHANGED <<customers, bookings, trucks, facilities, files>>

\* the process or the store fails after the file write and before the commit:
\* nothing removes the file
create_quote_with_photo_fail(call) ==
    /\ call \in inflight
    /\ inflight' = inflight \ {call}
    /\ last' = Reply("create_quote_with_photo", 500, NoResult, NoResult)
    /\ UNCHANGED <<customers, quotes, bookings, trucks, facilities, files, issued>>

\* mutant: no "if not quote" test, so an unknown id ends in a server error
approve_quote_unchecked(quote_id) ==
    LET found == session_get(quotes, quote_id)
    IN  /\ IF found = {}
           THEN /\ last' = Reply("approve_quote", 500, NoResult, NoResult)
                /\ UNCHANGED quotes
           ELSE \E quote \in found :
                /\ quotes' = (quotes \ {quote}) \cup {[quote EXCEPT !.accepted = TRUE]}
                /\ last' = Reply("approve_quote", 303, quote, NoResult)
        /\ UNCHANGED <<customers, bookings, trucks, facilities, files, inflight, issued>>

\* mutant: approve flips the flag instead of setting it
approve_quote_toggles(quote_id) ==
    LET found == session_get(quotes, quote_id)
    IN  /\ IF found = {}
           THEN /\ last' = Reply("approve_quote", 404, NoResult, NoResult)
                /\ UNCHANGED quotes
           ELSE \E quote \in found :
                /\ quotes' = (quotes \ {quote}) \cup {[quote EXCEPT !.accepted = ~quote.accepted]}
                /\ last' = Reply("approve_quote", 303, quote, NoResult)
        /\ UNCHANGED <<customers, bookings, trucks, facilities, files, inflight, issued>>

approve_quote(quote_id) ==
    LET found == session_get(quotes, quote_id)
    IN  /\ IF found = {}
           THEN /\ last' = Reply("approve_quote", 404, NoResult, NoResult)
                /\ UNCHANGED quotes
           ELSE \E quote \in found :
                /\ quotes' = (quotes \ {quote}) \cup {[quote EXCEPT !.accepted = TRUE]}
                /\ last' = Reply("approve_quote", 303, quote, NoResult)
        /\ UNCHANGED <<customers, bookings, trucks, facilities, files, inflight, issued>>

\* mutant: no "if not quote" test, so an unknown id ends in a server error
convert_quote_to_booking_unchecked(quote_id, scheduled_date, address) ==
    LET found == session_get(quotes, quote_id)
    IN  /\ IF found = {}
           THEN /\ last' = Reply("convert_quote_to_booking", 500, NoResult, NoResult)
                /\ UNCHANGED <<bookings, issued>>
           ELSE /\ RowCount < MaxRows
                /\ \E quote \in found, new \in uuid4 :
                    LET booking == [id |-> new, customer_id |-> quote.customer_id,
                                    quote_id |-> quote.id, scheduled_date |-> scheduled_date,
                                    address |-> address, categories |-> quote.categories]
                    IN  /\ issued' = issued \cup {new}
                        /\ IF IntegrityError(bookings, new)
                           THEN /\ last' = Reply("convert_quote_to_booking", 500, quote, NoResult)
                                /\ UNCHANGED bookings
                           ELSE /\ bookings' = session_add(bookings, booking)
                                /\ last' = Reply("convert_quote_to_booking", 303, quote, NoResult)
        /\ UNCHANGED <<customers, quotes, trucks, facilities, files, inflight>>

\* mutant: only an accepted Quote is converted
convert_quote_to_booking_accepted_only(quote_id, scheduled_date, address) ==
    LET found == session_get(quotes, quote_id)
    IN  /\ IF found = {} \/ \A q \in found : ~q.accepted
           THEN /\ last' = Reply("convert_quote_to_booking", 404, NoResult, NoResult)
                /\ UNCHANGED <<bookings, issued>>
           ELSE /\ RowCount < MaxRows
                /\ \E quote \in found, new \in uuid4 :
                    LET booking == [id |-> new, customer_id |-> quote.customer_id,
                                    quote_id |-> quote.id, scheduled_date |-> scheduled_date,
                                    address |-> address, categories |-> quote.categories]
                    IN  /\ issued' = issued \cup {new}
                        /\ IF IntegrityError(bookings, new)
                           THEN /\ last' = Reply("convert_quote_to_booking", 500, quote, NoResult)
                                /\ UNCHANGED bookings
                           ELSE /\ bookings' = session_add(bookings, booking)
                                /\ last' = Reply("convert_quote_to_booking", 303, quote, NoResult)
        /\ UNCHANGED <<customers, quotes, trucks, facilities, files, inflight>>

\* mutant: a Quote has at most one Booking, the newest
convert_quote_to_booking_replaces(quote_id, scheduled_date, address) ==
    LET found == session_get(quotes, quote_id)
    IN  /\ IF found = {}
           THEN /\ last' = Reply("convert_quote_to_booking", 404, NoResult, NoResult)
                /\ UNCHANGED <<bookings, issued>>
           ELSE /\ RowCount < MaxRows
                /\ \E quote \in found, new \in uuid4 :
                    LET booking == [id |-> new, customer_id |-> quote.customer_id,
                                    quote_id |-> quote.id, scheduled_date |-> scheduled_date,
                                    address |-> address, categories |-> quote.categories]
                    IN  /\ issued' = issued \cup {new}
                        /\ IF IntegrityError(bookings, new)
                           THEN /\ last' = Reply("convert_quote_to_booking", 500, quote, NoResult)
                                /\ UNCHANGED bookings
                           ELSE /\ bookings' = session_add({b \in bookings : b.quote_id # quote.id}, booking)
                                /\ last' = Reply("convert_quote_to_booking", 303, quote, NoResult)
        /\ UNCHANGED <<customers, quotes, trucks, facilities, files, inflight>>

convert_quote_to_booking(quote_id, scheduled_date, address) ==
    LET found == session_get(quotes, quote_id)
    IN  /\ IF found = {}
           THEN /\ last' = Reply("convert_quote_to_booking", 404, NoResult, NoResult)
                /\ UNCHANGED <<bookings, issued>>
           ELSE /\ RowCount < MaxRows
                /\ \E quote \in found, new \in uuid4 :
                    LET booking == [id |-> new, customer_id |-> quote.customer_id,
                                    quote_id |-> quote.id, scheduled_date |-> scheduled_date,
                                    address |-> address, categories |-> quote.categories]
                    IN  /\ issued' = issued \cup {new}
                        /\ IF IntegrityError(bookings, new)
                           THEN /\ last' = Reply("convert_quote_to_booking", 500, quote, NoResult)
                                /\ UNCHANGED bookings
                           ELSE /\ bookings' = session_add(bookings, booking)
                                /\ last' = Reply("convert_quote_to_booking", 303, quote, NoResult)
        /\ UNCHANGED <<customers, quotes, trucks, facilities, files, inflight>>

(* -------------------- bookings, trucks, facilities -------------------- *)
create_booking(id, customer_id, quote_id, scheduled_date, address, categories) ==
    \E new \in default_id(id) :
        LET row == [id |-> new, customer_id |-> customer_id, quote_id |-> quote_id,
                    scheduled_date |-> scheduled_date, address |-> address, categories |-> categories]
        IN  /\ issued' = issued \cup {new}
            /\ IF IntegrityError(bookings, new)
               THEN /\ last' = Reply("create_booking", 500, NoResult, NoResult)
                    /\ UNCHANGED bookings
               ELSE /\ RowCount < MaxRows
                    /\ bookings' = session_add(bookings, row)
                    /\ last' = Reply("create_booking", 200, NoResult, row)
            /\ UNCHANGED <<customers, quotes, trucks, facilities, files, inflight>>

create_truck(id, capacity, current_route) ==
    \E new \in default_id(id) :
        LET row == [id |-> new, capacity |-> capacity, current_route |-> current_route]
        IN  /\ issued' = issued \cup {new}
            /\ IF IntegrityError(trucks, new)
               THEN /\ last' = Reply("create_truck", 500, NoResult, NoResult)
                    /\ UNCHANGED trucks
               ELSE /\ RowCount < MaxRows
                    /\ trucks' = session_add(trucks, row)
                    /\ last' = Reply("create_truck", 200, NoResult, row)
            /\ UNCHANGED <<customers, quotes, bookings, facilities, files, inflight>>

create_facility(id, name, location, accepted_categories) ==
    \E new \in default_id(id) :
        LET row == [id |-> new, name |-> name, location |-> location,
                    accepted_categories |-> accepted_categories]
        IN  /\ issued' = issued \cup {new}
            /\ IF IntegrityError(facilities, new)
               THEN /\ last' = Reply("create_facility", 500, NoResult, NoResult)
                    /\ UNCHANGED facilities
               ELSE /\ RowCount < MaxRows
                    /\ facilities' = session_add(facilities, row)
                    /\ last' = Reply("create_facility", 200, NoResult, row)
            /\ UNCHANGED <<customers, quotes, bookings, trucks, files, inflight>>

Next ==
    \/ list_customers
    \/ \E id \in BodyIds, n \in Names, p \in Phones, e \in Emails : create_customer(id, n, p, e)
    \/ \E form \in QuoteForms :
          create_quote_with_photo_write(form[1], form[2], form[3], form[4], form[5], form[6])
    \/ \E call \in inflight : create_quote_with_photo_commit(call)
    \/ \E call \in inflight : create_quote_with_photo_fail(call)
    \/ \E q \in UUIDs : approve_quote(q)
    \/ \E q \in UUIDs, d \in Dates, a \in Addresses : convert_quote_to_booking(q, d, a)
    \/ \E id \in BodyIds, c \in BodyCustomers, q \in BodyQuotes, d \in BodyDates, a \in Addresses, cat \in BodyCategories :
          create_booking(id, c, q, d, a, cat)
    \/ \E id \in BodyIds, cap \in Capacities, r \in Routes : create_truck(id, cap, r)
    \/ \E id \in BodyIds, n \in FacilityNames, l \in Locations, cat \in AcceptedCategories :
          create_facility(id, n, l, cat)

Spec == Init /\ [][Next]_vars

(* ============================ properties ============================== *)
QuoteIds == {q.id : q \in quotes}
HasQuote(id) == \E q \in quotes : q.id = id
Converted(b) == b.scheduled_date \in Dates

\* C1: approve_quote on an id that matches no Quote answers 404 and leaves the five
\* tables and the stored files as they were.
C1_ApproveUnknownIs404AndChangesNothing ==
    [][\A id \in UUIDs :
          (approve_quote(id) /\ ~HasQuote(id))
              => (last'.op = "approve_quote" /\ last'.status = 404 /\ UNCHANGED persisted)]_vars

\* an approve of an unknown id has answered while every kind of record is stored
C1_Witness ==
    /\ last.op = "approve_quote" /\ last.status = 404
    /\ quotes # {} /\ customers # {} /\ DOMAIN files # {}

\* C2: convert_quote_to_booking on an id that matches no Quote answers 404, creates no
\* Booking and leaves the whole persisted state as it was.
C2_ConvertUnknownIs404AndChangesNothing ==
    [][\A id \in UUIDs, d \in Dates, a \in Addresses :
          (convert_quote_to_booking(id, d, a) /\ ~HasQuote(id))
              => (last'.op = "convert_quote_to_booking" /\ last'.status = 404
                  /\ bookings' = bookings /\ UNCHANGED persisted)]_vars

\* a convert of an unknown id has answered while quotes and bookings are stored
C2_Witness ==
    /\ last.op = "convert_quote_to_booking" /\ last.status = 404
    /\ quotes # {} /\ bookings # {}

\* C3: converting an existing Quote, pending or approved, succeeds and adds exactly one
\* Booking that carries the Quote's id, customer_id and categories and the supplied
\* scheduled_date and address.
C3_ConvertIgnoresAcceptedAndCopiesQuote ==
    [][\A quote \in quotes, d \in Dates, a \in Addresses :
          convert_quote_to_booking(quote.id, d, a)
              => /\ last'.status = 303
                 /\ \E b \in bookings' \ bookings :
                       /\ bookings' = bookings \cup {b}
                       /\ b.quote_id = quote.id
                       /\ b.customer_id = quote.customer_id
                       /\ b.categories = quote.categories
                       /\ b.scheduled_date = d
                       /\ b.address = a]_vars

\* a pending Quote has just been converted and its Booking is stored
C3_Witness ==
    /\ last.op = "convert_quote_to_booking" /\ last.status = 303
    /\ last.quote.accepted = FALSE
    /\ \E b \in bookings : b.quote_id = last.quote.id /\ b.categories = last.quote.categories

\* C4: converting a Quote that already has a Booking neither fails nor touches the
\* Bookings already stored: one more Booking appears, under an id no stored Booking has,
\* and the Quote rows are not changed.
C4_SecondConversionAddsIndependentBooking ==
    [][\A quote \in quotes, d \in Dates, a \in Addresses :
          (convert_quote_to_booking(quote.id, d, a) /\ \E b \in bookings : b.quote_id = quote.id)
              => /\ last'.status = 303
                 /\ bookings \subseteq bookings'
                 /\ Cardinality(bookings') = Cardinality(bookings) + 1
                 /\ \A b \in bookings' \ bookings :
                       /\ b.quote_id = quote.id
                       /\ \A old \in bookings : old.id # b.id
                 /\ quotes' = quotes]_vars

\* one Quote has been converted twice: two Bookings with different ids name it
C4_Witness ==
    /\ last.op = "convert_quote_to_booking" /\ last.status = 303
    /\ \E b1, b2 \in bookings :
          /\ Converted(b1) /\ Converted(b2)
          /\ b1.id # b2.id
          /\ b1.quote_id = last.quote.id /\ b2.quote_id = last.quote.id

\* C5: approving an existing Quote leaves it accepted, and approving a Quote that is
\* already accepted changes nothing that is persisted.
C5_ApproveIsIdempotent ==
    [][\A quote \in quotes :
          approve_quote(quote.id)
              => /\ last'.status = 303
                 /\ \A q \in quotes' : q.id = quote.id => q.accepted
                 /\ (quote.accepted => UNCHANGED persisted)]_vars

\* approve has just answered for a Quote it found already accepted
C5_Witness ==
    /\ last.op = "approve_quote" /\ last.status = 303
    /\ last.quote.accepted = TRUE
    /\ last.quote \in quotes

\* C6: a Quote enters the table with accepted = FALSE, only approve_quote of its id
\* turns accepted to TRUE, and no step turns it back or removes the Quote.
C6_AcceptedIsOneWay ==
    [][/\ \A r \in quotes' : r.id \notin QuoteIds => r.accepted = FALSE
       /\ \A q \in quotes : \E r \in quotes' :
             /\ r.id = q.id
             /\ (q.accepted => r.accepted)
             /\ ((~q.accepted /\ r.accepted) => approve_quote(q.id))]_vars

\* an accepted Quote has gone through a later conversion and is still accepted
C6_Witness ==
    /\ last.op = "convert_quote_to_booking" /\ last.status = 303
    /\ last.quote.accepted = TRUE
    /\ \E q \in quotes : q.id = last.quote.id /\ q.accepted
    /\ \E b \in bookings : b.quote_id = last.quote.id

\* C7: no two stored records share an id, over all five tables.
AllIds == {r.id : r \in customers} \cup {r.id : r \in quotes} \cup {r.id : r \in bookings}
          \cup {r.id : r \in trucks} \cup {r.id : r \in facilities}
C7_IdsGloballyUnique ==
    Cardinality(AllIds) = Cardinality(customers) + Cardinality(quotes) + Cardinality(bookings)
                          + Cardinality(trucks) + Cardinality(facilities)

\* C8: a created Customer is stored under an id no other Customer has, with the name,
\* phone and email submitted; no step changes or removes a Customer; list_customers
\* returns exactly the stored Customers, one per id.
C8_CustomersRoundTrip ==
    [][/\ customers \subseteq customers'
       /\ \A c, d \in customers' : c.id = d.id => c = d
       /\ \A id \in BodyIds, n \in Names, p \in Phones, e \in Emails :
             (create_customer(id, n, p, e) /\ last'.status = 200)
                 => /\ last'.body \in customers' \ customers
                    /\ last'.body.name = n /\ last'.body.phone = p /\ last'.body.email = e
                    /\ \A c \in customers : c.id # last'.body.id
       /\ list_customers => last'.body.items = customers']_vars

\* two Customers were created and a later listing returned both
C8_Witness ==
    /\ last.op = "list_customers"
    /\ Cardinality(customers) >= 2
    /\ last.body.items = customers
    /\ \E c, d \in customers : c.id # d.id /\ c.name # d.name

\* C9: every upload is stored under a name no stored file has, so no stored file is
\* overwritten, and no two Quotes share a photo_path.
C9_UploadsNeverOverwrite ==
    /\ [][\A form \in QuoteForms :
            create_quote_with_photo_write(form[1], form[2], form[3], form[4], form[5], form[6])
                => /\ Cardinality(DOMAIN files') = Cardinality(DOMAIN files) + 1
                   /\ \A p \in DOMAIN files : p \in DOMAIN files' /\ files'[p] = files[p]]_vars
    /\ [](\A q1, q2 \in quotes : q1.photo_path = q2.photo_path => q1 = q2)

\* the same file uploaded twice under the same filename: two stored copies, two Quotes
\* with different paths
C9_Witness ==
    \E q1, q2 \in quotes :
        /\ q1.photo_path # q2.photo_path
        /\ q1.photo_path[3] = q2.photo_path[3]
        /\ q1.photo_path \in DOMAIN files /\ q2.photo_path \in DOMAIN files
        /\ files[q1.photo_path] = files[q2.photo_path]

\* C10: the photo of every stored Quote is in the file store.
C10_QuotePhotoIsStored ==
    \A q \in quotes : q.photo_path \in DOMAIN files

\* an upload failed after its file was written: the file stays without a Quote, next to
\* a Quote whose file is stored
C10_Witness ==
    /\ quotes # {}
    /\ \A q \in quotes : q.photo_path \in DOMAIN files
    /\ \E p \in DOMAIN files : (\A q \in quotes : q.photo_path # p) /\ (\A c \in inflight : c.photo_path # p)
====
